---- MODULE Spec2Model ----
(***************************************************************************)
(* Model of the AppGui core: the mutex-guarded serial wrapper MutexSerial  *)
(* (code/mutex_serial.py) and the crash artifact manager                   *)
(* CrashOutputManager (code/crash_output_manager.py).                      *)
(***************************************************************************)
EXTENDS Integers, Sequences, FiniteSets, TLC

(***************************************************************************)
(* Bounds of the model.                                                    *)
(***************************************************************************)
NumThreads == 3
MaxNameLen == 2
MaxCalls == 2
MaxLongNameLen == 4

\* The rows of the threading table and the largest sleep time it accepts.
NumRows == 5
TimeLimit == 60

\* The QThread objects one run makes at most, calls of click_go that are in
\* progress included.
MaxWorkers == 2

\* The handlers of the GUI thread that are in progress at once at most, each
\* but the innermost waiting in a processEvents().
MaxDepth == 2

Threads == 1 .. NumThreads

VARIABLES
    my_lock,      \* MutexSerial.my_lock: TRUE when the threading.Lock is locked
    is_open,      \* serial.Serial.is_open of the guard object
    pc,           \* per thread: where it stands in __enter__ / the body / __exit__
    inWindow,     \* per thread: between a successful __enter__ and the end of its __exit__
    handle,       \* per thread: what its last __enter__ gave it
    exitArgs,     \* per thread: the exception state handed to __exit__
    openCalled,   \* per thread: whether its last __enter__ went into self.open()
    lastRelease   \* the last __exit__ that reached self.close(): its thread, its
                  \* exception state and whether the device was open at that point

guardVars == <<my_lock, is_open, pc, inWindow, handle, exitArgs, openCalled, lastRelease>>

VARIABLES
    dirs,         \* the directories that exist, by path
    blocked,      \* the directory paths at which os.mkdir fails
    files,        \* the files that exist: path -> the records written to it
    handlers,     \* logging.root.handlers: the file each FileHandler writes to
    history,      \* the calls of CrashOutputManager made so far, in order
    calls         \* per caller thread: the call it is in the middle of

crashVars == <<dirs, blocked, files, handlers, history, calls>>

VARIABLES
    cells,          \* the threading table: what its text and time QLineEdit cells hold
    returned,       \* what the last call of threading_table_data_wrangler returned
    callback_calls  \* the texts that call handed to update_status_callback

tableVars == <<cells, returned, callback_calls>>

VARIABLES
    checked,      \* isChecked() of the check boxes of the main window
    enabled,      \* isEnabled() of the widgets click_go disables
    stack,        \* the handlers in progress on the GUI thread, each waiting in
                  \* a QApplication.processEvents(): where; innermost last
    workers,      \* the QThread objects click_go has made, in order: their state
    threading_table_thread,  \* which of them self.threading_table_thread is (0: not set)
    crashed,      \* the process was aborted
    settings      \* the settings dialog: open or not, its radio buttons, its drop-down

guiVars == <<checked, enabled, stack, workers, threading_table_thread, crashed, settings>>

vars == <<guardVars, crashVars, tableVars, guiVars>>

\* The object `return self` of __enter__ yields.
Self == "MutexSerial"

PcValues ==
    {"idle", "enter_acquire", "enter_check", "enter_open", "enter_return",
     "body", "exit_close", "exit_release"}

HandleValues == {"none", Self, "SerialException"}

NoRelease == [kind |-> "none", wasOpen |-> FALSE, by |-> 0]

TypeOK ==
    /\ my_lock \in BOOLEAN
    /\ is_open \in BOOLEAN
    /\ pc \in [Threads -> PcValues]
    /\ inWindow \in [Threads -> BOOLEAN]
    /\ handle \in [Threads -> HandleValues]
    /\ exitArgs \in [Threads -> {"none", "normal", "exception"}]
    /\ openCalled \in [Threads -> BOOLEAN]

(***************************************************************************)
(* MutexSerial.__init__: a fresh unlocked lock, then serial.Serial's       *)
(* constructor with the caller's arguments.  pySerial opens the port in    *)
(* the constructor when a port is given and leaves it closed otherwise.    *)
(***************************************************************************)
GuardInit ==
    /\ my_lock = FALSE
    /\ is_open \in BOOLEAN
    /\ pc = [t \in Threads |-> "idle"]
    /\ inWindow = [t \in Threads |-> FALSE]
    /\ handle = [t \in Threads |-> "none"]
    /\ exitArgs = [t \in Threads |-> "none"]
    /\ openCalled = [t \in Threads |-> FALSE]
    /\ lastRelease = NoRelease

\* A thread calls __enter__ (`with guard:`), from outside any window or from
\* inside the body of its own window (a nested `with`).
EnterCall(t) ==
    /\ pc[t] \in {"idle", "body"}
    /\ pc' = [pc EXCEPT ![t] = "enter_acquire"]
    /\ UNCHANGED <<my_lock, is_open, inWindow, handle, exitArgs, openCalled, lastRelease>>
    /\ UNCHANGED <<crashVars, tableVars, guiVars>>

\* Variants of LockAcquire: an acquire that gives up while the lock is held,
\* one that ignores the lock, and one that lets the holder in again (RLock).
LockAcquireTimedOut(t) ==
    /\ pc[t] = "enter_acquire"
    /\ \/ /\ ~my_lock
          /\ my_lock' = TRUE
          /\ pc' = [pc EXCEPT ![t] = "enter_check"]
          /\ UNCHANGED handle
       \/ /\ my_lock
          /\ my_lock' = my_lock
          /\ pc' = [pc EXCEPT ![t] = IF inWindow[t] THEN "body" ELSE "idle"]
          /\ handle' = [handle EXCEPT ![t] = "none"]
    /\ UNCHANGED <<is_open, inWindow, exitArgs, openCalled, lastRelease>>
    /\ UNCHANGED <<crashVars, tableVars, guiVars>>

LockAcquireUnguarded(t) ==
    /\ pc[t] = "enter_acquire"
    /\ my_lock' = TRUE
    /\ pc' = [pc EXCEPT ![t] = "enter_check"]
    /\ UNCHANGED <<is_open, inWindow, handle, exitArgs, openCalled, lastRelease>>
    /\ UNCHANGED <<crashVars, tableVars, guiVars>>

LockAcquireReentrant(t) ==
    /\ pc[t] = "enter_acquire"
    /\ ~my_lock \/ inWindow[t]
    /\ my_lock' = TRUE
    /\ pc' = [pc EXCEPT ![t] = "enter_check"]
    /\ UNCHANGED <<is_open, inWindow, handle, exitArgs, openCalled, lastRelease>>
    /\ UNCHANGED <<crashVars, tableVars, guiVars>>

\* threading.Lock.acquire() with no arguments: blocking, no timeout, and the
\* lock has no owner, so the thread that locked it is refused like any other.
LockAcquire(t) ==
    /\ pc[t] = "enter_acquire"
    /\ ~my_lock
    /\ my_lock' = TRUE
    /\ pc' = [pc EXCEPT ![t] = "enter_check"]
    /\ UNCHANGED <<is_open, inWindow, handle, exitArgs, openCalled, lastRelease>>
    /\ UNCHANGED <<crashVars, tableVars, guiVars>>

\* Variant of CheckOpen: open() is called whatever is_open says.
CheckOpenAlways(t) ==
    /\ pc[t] = "enter_check"
    /\ pc' = [pc EXCEPT ![t] = "enter_open"]
    /\ openCalled' = [openCalled EXCEPT ![t] = TRUE]
    /\ UNCHANGED <<my_lock, is_open, inWindow, handle, exitArgs, lastRelease>>
    /\ UNCHANGED <<crashVars, tableVars, guiVars>>

\* `if not self.is_open:` of __enter__.
CheckOpen(t) ==
    /\ pc[t] = "enter_check"
    /\ pc' = [pc EXCEPT ![t] = IF ~is_open THEN "enter_open" ELSE "enter_return"]
    /\ openCalled' = [openCalled EXCEPT ![t] = ~is_open]
    /\ UNCHANGED <<my_lock, is_open, inWindow, handle, exitArgs, lastRelease>>
    /\ UNCHANGED <<crashVars, tableVars, guiVars>>

\* `self.open()` succeeds.
OpenOk(t) ==
    /\ pc[t] = "enter_open"
    /\ is_open' = TRUE
    /\ pc' = [pc EXCEPT ![t] = "enter_return"]
    /\ UNCHANGED <<my_lock, inWindow, handle, exitArgs, openCalled, lastRelease>>
    /\ UNCHANGED <<crashVars, tableVars, guiVars>>

\* `self.open()` raises: the exception leaves __enter__ at once.  Nothing in
\* __enter__ catches it, and `with` does not call __exit__ when __enter__ raised.
OpenFail(t) ==
    /\ pc[t] = "enter_open"
    /\ pc' = [pc EXCEPT ![t] = IF inWindow[t] THEN "body" ELSE "idle"]
    /\ handle' = [handle EXCEPT ![t] = "SerialException"]
    /\ UNCHANGED <<my_lock, is_open, inWindow, exitArgs, openCalled, lastRelease>>
    /\ UNCHANGED <<crashVars, tableVars, guiVars>>

\* `return self`: the window of t begins.
EnterReturn(t) ==
    /\ pc[t] = "enter_return"
    /\ pc' = [pc EXCEPT ![t] = "body"]
    /\ inWindow' = [inWindow EXCEPT ![t] = TRUE]
    /\ handle' = [handle EXCEPT ![t] = Self]
    /\ UNCHANGED <<my_lock, is_open, exitArgs, openCalled, lastRelease>>
    /\ UNCHANGED <<crashVars, tableVars, guiVars>>

\* The body of the window uses the handle; serial.Serial.close() is part of
\* the surface MutexSerial inherits, so the body may close the device itself.
BodyClose(t) ==
    /\ pc[t] = "body"
    /\ inWindow[t]
    /\ is_open
    /\ is_open' = FALSE
    /\ UNCHANGED <<my_lock, pc, inWindow, handle, exitArgs, openCalled, lastRelease>>
    /\ UNCHANGED <<crashVars, tableVars, guiVars>>

\* The body ends, normally or with an exception: `with` calls __exit__ with
\* the exception state as *args.
ExitCall(t, how) ==
    /\ pc[t] = "body"
    /\ inWindow[t]
    /\ pc' = [pc EXCEPT ![t] = "exit_close"]
    /\ exitArgs' = [exitArgs EXCEPT ![t] = how]
    /\ UNCHANGED <<my_lock, is_open, inWindow, handle, lastRelease, openCalled>>
    /\ UNCHANGED <<crashVars, tableVars, guiVars>>

\* Variants of ExitClose: the lock is released where the device should be
\* closed, and the device is closed only when the body ended normally.
ExitCloseReleasesFirst(t) ==
    /\ pc[t] = "exit_close"
    /\ my_lock' = FALSE
    /\ pc' = [pc EXCEPT ![t] = "exit_release"]
    /\ lastRelease' = [kind |-> exitArgs[t], wasOpen |-> is_open, by |-> t]
    /\ UNCHANGED <<is_open, inWindow, handle, exitArgs, openCalled>>
    /\ UNCHANGED <<crashVars, tableVars, guiVars>>

ExitCloseOnSuccessOnly(t) ==
    /\ pc[t] = "exit_close"
    /\ is_open' = IF exitArgs[t] = "exception" THEN is_open ELSE FALSE
    /\ pc' = [pc EXCEPT ![t] = "exit_release"]
    /\ lastRelease' = [kind |-> exitArgs[t], wasOpen |-> is_open, by |-> t]
    /\ UNCHANGED <<my_lock, inWindow, handle, exitArgs, openCalled>>
    /\ UNCHANGED <<crashVars, tableVars, guiVars>>

\* `self.close()` of __exit__: unconditional, a no-op on a closed device.
ExitClose(t) ==
    /\ pc[t] = "exit_close"
    /\ is_open' = FALSE
    /\ pc' = [pc EXCEPT ![t] = "exit_release"]
    /\ lastRelease' = [kind |-> exitArgs[t], wasOpen |-> is_open, by |-> t]
    /\ UNCHANGED <<my_lock, inWindow, handle, exitArgs, openCalled>>
    /\ UNCHANGED <<crashVars, tableVars, guiVars>>

\* `self.my_lock.release()` of __exit__, which then returns None: the window
\* of t ends and an exception of the body goes on to the caller.
ExitRelease(t) ==
    /\ pc[t] = "exit_release"
    /\ my_lock' = FALSE
    /\ pc' = [pc EXCEPT ![t] = "idle"]
    /\ inWindow' = [inWindow EXCEPT ![t] = FALSE]
    /\ UNCHANGED <<is_open, handle, exitArgs, openCalled, lastRelease>>
    /\ UNCHANGED <<crashVars, tableVars, guiVars>>

GuardNext ==
    \E t \in Threads :
        \/ EnterCall(t)
        \/ LockAcquire(t)
        \/ CheckOpen(t)
        \/ OpenOk(t)
        \/ OpenFail(t)
        \/ EnterReturn(t)
        \/ BodyClose(t)
        \/ \E how \in {"normal", "exception"} : ExitCall(t, how)
        \/ ExitClose(t)
        \/ ExitRelease(t)

(***************************************************************************)
(* CrashOutputManager.  Strings are sequences of characters; the fixed     *)
(* pieces of a path (a folder name, a suffix) are single elements.         *)
(***************************************************************************)

NameChars == {"a", "."}

RECURSIVE SeqsUpTo(_, _)
SeqsUpTo(S, n) ==
    IF n = 0 THEN {<<>>}
    ELSE LET shorter == SeqsUpTo(S, n - 1)
         IN  shorter \cup {Append(s, c) : s \in {x \in shorter : Len(x) = n - 1}, c \in S}

\* The output file names the calls are made with.
FileNames == SeqsUpTo(NameChars, MaxNameLen) \ {<<>>}

\* The exceptions that may be active when a call is made ("none": no
\* exception is being handled).
Exceptions == {"none", "ZeroDivisionError"}

\* Index of the first / last occurrence of c in s; 0 when there is none.
FirstIndex(s, c) ==
    IF \E i \in 1 .. Len(s) : s[i] = c
    THEN CHOOSE i \in 1 .. Len(s) : s[i] = c /\ \A j \in 1 .. (i - 1) : s[j] # c
    ELSE 0

LastIndex(s, c) ==
    IF \E i \in 1 .. Len(s) : s[i] = c
    THEN CHOOSE i \in 1 .. Len(s) : s[i] = c /\ \A j \in (i + 1) .. Len(s) : s[j] # c
    ELSE 0

\* Python's str.split(sep): the pieces of s between the occurrences of sep.
RECURSIVE Split(_, _)
Split(s, sep) ==
    LET i == FirstIndex(s, sep)
    IN  IF i = 0 THEN <<s>>
        ELSE <<SubSeq(s, 1, i - 1)>> \o Split(SubSeq(s, i + 1, Len(s)), sep)

\* Variant of BaseName: the name is cut at its last period.
BaseNameAtLastPeriod(n) ==
    LET i == LastIndex(n, ".")
    IN  IF i = 0 THEN n ELSE SubSeq(n, 1, i - 1)

\* `output_file_name.split(".")[0]`
BaseName(n) == Split(n, ".")[1]

\* os.path.dirname(os.getcwd()) and the separator the module writes.
ParentOfCwd == <<"<parent-of-cwd>">>
Sep == <<"\\">>

\* `output_crash_log_folder_path`
CrashLogFolderPath == ParentOfCwd \o Sep \o <<"Crash Logs">>

\* `output_crash_log_file_name` and `output_crash_log_file_path`
CrashLogFileName(n) == BaseName(n) \o <<"_CRASHLOG", ".", "log">>

CrashLogFilePath(n) == CrashLogFolderPath \o Sep \o CrashLogFileName(n)

\* traceback.format_exc(): the rendered traceback of the exception being
\* handled; with none active it renders "NoneType: None".
FormatExc(exc) ==
    IF exc = "none" THEN <<"NoneType: None">>
    ELSE <<"Traceback (most recent call last):", exc>>

\* The fixed text logged when optional_bool is set, line by line.
CustomMessage ==
    <<"", "", "[This is a custom logging.error message]", "",
      "| Here is a sentence!", "| ", "| ", "| Here is another sentence!", "| ", "|">>

\* Variant of LogMessage: the flag is read the other way round.
LogMessageFlagInverted(flag, exc) == IF flag THEN FormatExc(exc) ELSE CustomMessage

\* The text handed to logging.error.
LogMessage(flag, exc) == IF ~flag THEN FormatExc(exc) ELSE CustomMessage

\* A record as the default format of basicConfig writes it
\* (levelname:name:message), with the number of the call that logged it.
LogRecord(k, msg) == [call |-> k, text |-> <<"ERROR", ":", "root", ":">> \o msg]

\* Variant of BasicConfigHandlers: the earlier handlers are kept.
BasicConfigKeepingHandlers(hs, f) == Append(hs, f)

\* logging.basicConfig(filename=f, force=True): every handler of the root
\* logger is removed and closed, then one FileHandler on f is added.  The
\* handler opens f in append mode at once, which creates f when absent.
BasicConfigHandlers(hs, f) == <<f>>

BasicConfigFiles(fs, f) ==
    IF f \in DOMAIN fs THEN fs ELSE [p \in DOMAIN fs \cup {f} |-> IF p = f THEN <<>> ELSE fs[p]]

Range(s) == {s[i] : i \in 1 .. Len(s)}

\* Variant of LoggingError: nothing is written when there is no traceback.
LoggingErrorSkippingNone(fs, hs, rec) ==
    [p \in DOMAIN fs |->
        IF p \in Range(hs) /\ "NoneType: None" \notin Range(rec.text)
        THEN Append(fs[p], rec) ELSE fs[p]]

\* logging.error(msg): the root logger hands one record to each handler, and
\* each FileHandler appends it to its file.
LoggingError(fs, hs, rec) ==
    [p \in DOMAIN fs |-> IF p \in Range(hs) THEN Append(fs[p], rec) ELSE fs[p]]

\* The handler logging.error installs by a plain basicConfig() when the root
\* logger has none: a StreamHandler on stderr, which is no file.
StdErr == <<"<stderr>">>

NoFiles == [p \in {} |-> <<>>]

\* Variant of IsDir: the directory is never found.
IsDirNever(ds, folder) == FALSE

\* os.path.isdir(folder)
IsDir(ds, folder) == folder \in ds

\* os.mkdir(folder) raises: FileExistsError when the directory is there,
\* another OSError when it cannot be created.
MkdirRaises(ds, bl, folder) == folder \in ds \/ folder \in bl

\* `output_crash_data_folder_path`, `output_crash_data_file_name` and
\* `output_crash_data_file_path`
\* Variant of CrashDataFolderPath: crash data goes to the folder of the logs.
CrashDataFolderInCrashLogs == CrashLogFolderPath

CrashDataFolderPath == ParentOfCwd \o Sep \o <<"Crash Data">>

CrashDataFileName(n) == BaseName(n) \o <<"_CRASHDUMP", ".", "txt">>

CrashDataFilePath(n) == CrashDataFolderPath \o Sep \o CrashDataFileName(n)

\* The working output file of a run whose output file name is n, and what
\* is in the file written at path p.
WorkPath(n) == <<"<cwd>">> \o Sep \o n

OutputData(p) == <<[call |-> 0, text |-> <<"output written at">> \o p]>>

\* Files left in the two directories by earlier runs.
UnrelatedLogFile == CrashLogFolderPath \o Sep \o <<"earlier", ".", "log">>
UnrelatedDataFile == CrashDataFolderPath \o Sep \o <<"earlier", ".", "txt">>
UnrelatedContent == <<[call |-> 0, text |-> <<"left by an earlier run">>]>>

DirStates == {"present", "absent", "blocked"}

\* The threads that call CrashOutputManager at the same time in
\* ConcurrentSpec, and the output file each of them has.
CrashCallers == {"t1", "t2"}

CallerName == [t \in CrashCallers |-> IF t = "t1" THEN <<"a">> ELSE <<"a", "a">>]

\* A caller that is in no call.
NoCall == [at |-> "idle", op |-> "none", flag |-> FALSE, mkdir |-> FALSE]

\* The filesystem and the logging state of a starting process.  Each of the
\* two directories is there from an earlier run (with a file in it), or
\* absent, or absent and not creatable; the working files ws exist; the
\* root logger has no handler.
CrashState(ld, dd, ws) ==
    /\ dirs = (IF ld = "present" THEN {CrashLogFolderPath} ELSE {})
                \cup (IF dd = "present" THEN {CrashDataFolderPath} ELSE {})
    /\ blocked = (IF ld = "blocked" THEN {CrashLogFolderPath} ELSE {})
                \cup (IF dd = "blocked" THEN {CrashDataFolderPath} ELSE {})
    /\ files = [p \in (IF ld = "present" THEN {UnrelatedLogFile} ELSE {})
                        \cup (IF dd = "present" THEN {UnrelatedDataFile} ELSE {})
                        \cup ws
                  |-> IF p \in ws THEN OutputData(p) ELSE UnrelatedContent]
    /\ handlers = <<>>
    /\ history = <<>>
    /\ calls = [t \in CrashCallers |-> NoCall]

CrashInit == \E ld \in DirStates : CrashState(ld, "absent", {})

\* One entry of history.
CallRecord(op, n, flag, exc, src, raised, mk, mv, ret) ==
    [op |-> op, name |-> n, flag |-> flag, exc |-> exc, src |-> src,
     raised |-> raised, mkdir |-> mk, moves |-> mv, ret |-> ret]

\* CrashOutputManager.crash_log_manager(output_file_name, optional_bool),
\* called while exception exc is being handled.
crash_log_manager(n, flag, exc) ==
    /\ Len(history) < MaxCalls
    /\ UNCHANGED <<guardVars, tableVars, guiVars, calls>>
    /\ LET k == Len(history) + 1
           mk == ~IsDir(dirs, CrashLogFolderPath)
       IN  IF mk /\ MkdirRaises(dirs, blocked, CrashLogFolderPath)
           THEN \* os.mkdir raises and the exception leaves the function
                /\ history' = Append(history,
                       CallRecord("crash_log_manager", n, flag, exc, <<>>, TRUE, mk, 0, <<>>))
                /\ UNCHANGED <<dirs, blocked, files, handlers>>
           ELSE LET path == CrashLogFilePath(n)
                    hs == BasicConfigHandlers(handlers, path)
                    opened == BasicConfigFiles(files, path)
                IN  /\ dirs' = dirs \cup {CrashLogFolderPath}
                    /\ handlers' = hs
                    /\ files' = LoggingError(opened, hs, LogRecord(k, LogMessage(flag, exc)))
                    /\ history' = Append(history,
                           CallRecord("crash_log_manager", n, flag, exc, <<>>, FALSE, mk, 0, path))
                    /\ UNCHANGED blocked

\* A collaborator logs a record of its own with logging.error: through the
\* handlers the root logger has, or, when it has none, through the stderr
\* handler that logging.error then installs.
collaborator_logging_error ==
    /\ Len(history) < MaxCalls
    /\ UNCHANGED <<guardVars, tableVars, guiVars, calls>>
    /\ LET k == Len(history) + 1
           hs == IF handlers = <<>> THEN <<StdErr>> ELSE handlers
       IN  /\ handlers' = hs
           /\ files' = LoggingError(files, hs, LogRecord(k, <<"collaborator">>))
           /\ history' = Append(history,
                  CallRecord("logging.error", <<>>, FALSE, "none", <<>>, FALSE, FALSE, 0, <<>>))
    /\ UNCHANGED <<dirs, blocked>>

\* Variants of ShutilMove: the source is copied and stays, and the
\* destination is opened for writing before the source is looked at.
ShutilMoveCopying(fs, src, dst) ==
    IF src \notin DOMAIN fs THEN fs
    ELSE [q \in DOMAIN fs \cup {dst} |-> IF q = dst THEN fs[src] ELSE fs[q]]

ShutilMoveTouchingDst(fs, src, dst) ==
    IF src \notin DOMAIN fs
    THEN [q \in DOMAIN fs \cup {dst} |-> IF q = dst THEN <<>> ELSE fs[q]]
    ELSE [q \in (DOMAIN fs \ {src}) \cup {dst} |-> IF q = dst THEN fs[src] ELSE fs[q]]

\* shutil.move(src, dst) for a file src and a dst that is no directory:
\* os.rename, or copy and unlink where rename refuses; either way dst ends
\* up with what src held (a file at dst is replaced) and src is gone.
\* Renaming a file to its own path changes nothing.  With no file at src it
\* raises, before anything is written.
ShutilMoveRaises(fs, src) == src \notin DOMAIN fs

ShutilMove(fs, src, dst) ==
    IF src \notin DOMAIN fs \/ src = dst THEN fs
    ELSE [q \in (DOMAIN fs \ {src}) \cup {dst} |-> IF q = dst THEN fs[src] ELSE fs[q]]

\* CrashOutputManager.crash_data_manager(output_file_name, output_file_path)
crash_data_manager(n, p) ==
    /\ Len(history) < MaxCalls
    /\ UNCHANGED <<guardVars, tableVars, guiVars, calls>>
    /\ LET mk == ~IsDir(dirs, CrashDataFolderPath)
       IN  IF mk /\ MkdirRaises(dirs, blocked, CrashDataFolderPath)
           THEN \* os.mkdir raises and the exception leaves the function
                /\ history' = Append(history,
                       CallRecord("crash_data_manager", n, FALSE, "none", p, TRUE, mk, 0, <<>>))
                /\ UNCHANGED <<dirs, blocked, files, handlers>>
           ELSE LET path == CrashDataFilePath(n)
                    fails == ShutilMoveRaises(files, p)
                IN  /\ dirs' = dirs \cup {CrashDataFolderPath}
                    /\ files' = ShutilMove(files, p, path)
                    /\ history' = Append(history,
                           CallRecord("crash_data_manager", n, FALSE, "none", p, fails, mk, 1,
                                      IF fails THEN <<>> ELSE path))
                    /\ UNCHANGED <<blocked, handlers>>

(***************************************************************************)
(* The same two functions, statement by statement, for callers that run    *)
(* at the same time: a step is one access to the filesystem or to the      *)
(* logging module.                                                         *)
(***************************************************************************)

\* The folder and the path of the call thread t is in.
CallFolder(t) ==
    IF calls[t].op = "crash_log_manager" THEN CrashLogFolderPath ELSE CrashDataFolderPath

CallPath(t) ==
    IF calls[t].op = "crash_log_manager"
    THEN CrashLogFilePath(CallerName[t])
    ELSE CrashDataFilePath(CallerName[t])

\* The calls started so far.
CallsStarted == Len(history) + Cardinality({t \in CrashCallers : calls[t].at # "idle"})

\* The entry of history for the call thread t is in.
CallDone(t, raised, mv, ret) ==
    CallRecord(calls[t].op, CallerName[t], calls[t].flag, "ZeroDivisionError",
               IF calls[t].op = "crash_data_manager" THEN WorkPath(CallerName[t]) ELSE <<>>,
               raised, calls[t].mkdir, mv, ret)

\* Thread t calls op; `if not os.path.isdir(folder)` (lines 34, 85).
step_isdir(t, op, flag) ==
    /\ calls[t].at = "idle"
    /\ CallsStarted < MaxCalls
    /\ LET there == IsDir(dirs, IF op = "crash_log_manager"
                                THEN CrashLogFolderPath ELSE CrashDataFolderPath)
       IN  calls' = [calls EXCEPT ![t] =
                        [at |-> IF ~there THEN "mkdir"
                                ELSE IF op = "crash_log_manager" THEN "basicConfig" ELSE "move",
                         op |-> op, flag |-> flag, mkdir |-> ~there]]
    /\ UNCHANGED <<guardVars, tableVars, guiVars, dirs, blocked, files, handlers, history>>

\* `os.mkdir(folder)` (lines 35, 86).
step_mkdir(t) ==
    /\ calls[t].at = "mkdir"
    /\ IF MkdirRaises(dirs, blocked, CallFolder(t))
       THEN /\ history' = Append(history, CallDone(t, TRUE, 0, <<>>))
            /\ calls' = [calls EXCEPT ![t] = NoCall]
            /\ UNCHANGED dirs
       ELSE /\ dirs' = dirs \cup {CallFolder(t)}
            /\ calls' = [calls EXCEPT ![t].at =
                            IF calls[t].op = "crash_log_manager" THEN "basicConfig" ELSE "move"]
            /\ UNCHANGED history
    /\ UNCHANGED <<guardVars, tableVars, guiVars, blocked, files, handlers>>

\* `logging.basicConfig(filename=..., force=True)` (line 46); the logging
\* module holds its lock for the whole of it.
step_basicConfig(t) ==
    /\ calls[t].at = "basicConfig"
    /\ handlers' = BasicConfigHandlers(handlers, CallPath(t))
    /\ files' = BasicConfigFiles(files, CallPath(t))
    /\ calls' = [calls EXCEPT ![t].at = "error"]
    /\ UNCHANGED <<guardVars, tableVars, guiVars, dirs, blocked, history>>

\* `logging.error(...)` and the return (lines 47-63): the record goes to
\* the handlers the root logger has at this moment.
step_error(t) ==
    /\ calls[t].at = "error"
    /\ LET k == Len(history) + 1
           hs == IF handlers = <<>> THEN <<StdErr>> ELSE handlers
       IN  /\ handlers' = hs
           /\ files' = LoggingError(files, hs,
                           LogRecord(k, LogMessage(calls[t].flag, "ZeroDivisionError")))
           /\ history' = Append(history, CallDone(t, FALSE, 0, CallPath(t)))
    /\ calls' = [calls EXCEPT ![t] = NoCall]
    /\ UNCHANGED <<guardVars, tableVars, guiVars, dirs, blocked>>

\* `shutil.move(output_file_path, output_crash_data_file_path)` and the
\* return (lines 94-96).
step_move(t) ==
    /\ calls[t].at = "move"
    /\ LET src == WorkPath(CallerName[t])
           fails == ShutilMoveRaises(files, src)
       IN  /\ files' = ShutilMove(files, src, CallPath(t))
           /\ history' = Append(history,
                  CallDone(t, fails, 1, IF fails THEN <<>> ELSE CallPath(t)))
    /\ calls' = [calls EXCEPT ![t] = NoCall]
    /\ UNCHANGED <<guardVars, tableVars, guiVars, dirs, blocked, handlers>>

ConcurrentInit ==
    \E ld \in DirStates, dd \in DirStates :
        CrashState(ld, dd, {WorkPath(CallerName[t]) : t \in CrashCallers})

ConcurrentNext ==
    \E t \in CrashCallers :
        \/ \E flag \in BOOLEAN : step_isdir(t, "crash_log_manager", flag)
        \/ step_isdir(t, "crash_data_manager", FALSE)
        \/ step_mkdir(t)
        \/ step_basicConfig(t)
        \/ step_error(t)
        \/ step_move(t)

\* The one working output file of CrashDataSpec, and the paths its calls
\* are given: that file, and every path a call may have moved a file to.
TheOutputFile == WorkPath(<<"a">>)

SourcePaths == {TheOutputFile} \cup {CrashDataFilePath(m) : m \in FileNames}

CrashDataInit == \E dd \in DirStates : CrashState("absent", dd, {TheOutputFile})

CrashDataNext ==
    \E n \in FileNames, p \in SourcePaths : crash_data_manager(n, p)

\* The output file of ProducerSpec: its working file is there from the start
\* until a call moves it, and every call is made for it.
OutputName ==
    CHOOSE n \in FileNames :
        IF history = <<>> THEN WorkPath(n) \in DOMAIN files ELSE history[1].name = n

ProducerInit ==
    \E n \in FileNames, ld \in DirStates, dd \in DirStates :
        CrashState(ld, dd, {WorkPath(n)})

\* The collaborator that produced the output file calls one operation, the
\* other, or both, in any order.
ProducerNext ==
    \/ \E flag \in BOOLEAN, exc \in Exceptions :
           crash_log_manager(OutputName, flag, exc)
    \/ crash_data_manager(OutputName, WorkPath(OutputName))

\* The names NameSpec makes its one call with: every name over NameChars
\* up to MaxLongNameLen characters, the empty name among them.
LongNames == SeqsUpTo(NameChars, MaxLongNameLen)

NameInit ==
    \E ld \in {"present", "absent"}, dd \in {"present", "absent"} :
        CrashState(ld, dd, {TheOutputFile})

\* The first call of a process, made with any name.
NameNext ==
    \/ \E n \in LongNames, exc \in Exceptions :
           history = <<>> /\ crash_log_manager(n, FALSE, exc)
    \/ \E n \in LongNames :
           history = <<>> /\ crash_data_manager(n, TheOutputFile)

CrashNext ==
    \/ \E n \in FileNames, flag \in BOOLEAN, exc \in Exceptions :
          crash_log_manager(n, flag, exc)
    \/ collaborator_logging_error

(***************************************************************************)
(* ThreadingTableDataWrangler (code/threading_table_data_wrangler.py).     *)
(* A text cell holds a string, "" when empty; a time cell holds a sequence *)
(* of digit characters, <<>> when empty: the validator of the time cells   *)
(* (run.py, timing_validator) lets one or two digits in.                   *)
(***************************************************************************)
Rows == 1 .. NumRows

TextValues == {"", "x"}

TimeValues == {<<>>, <<"0">>, <<"6", "0">>, <<"6", "1">>}

Tables == [text : [Rows -> TextValues], time : [Rows -> TimeValues]]

EmptyTable == [text |-> [i \in Rows |-> ""], time |-> [i \in Rows |-> <<>>]]

\* float(value) for a string of decimal digits.
DigitValue(c) ==
    CASE c = "0" -> 0 [] c = "1" -> 1 [] c = "2" -> 2 [] c = "3" -> 3 [] c = "4" -> 4
      [] c = "5" -> 5 [] c = "6" -> 6 [] c = "7" -> 7 [] c = "8" -> 8 [] c = "9" -> 9

RECURSIVE Float(_)
Float(value) ==
    IF value = <<>> THEN 0
    ELSE 10 * Float(SubSeq(value, 1, Len(value) - 1)) + DigitValue(value[Len(value)])

\* The texts handed to update_status_callback.
EmptyTableText == "Empty Threading Table!"
MissingDataText == "Missing Threading Table data!"
TooLargeText == "Threading Table time values too large: 60 >= t >= 0"

\* `return (True, True)` after one call of update_status_callback(text), and
\* `return (threading_table_text_list, threading_table_times_list)`.
Failure(text) == [failed |-> TRUE, texts |-> <<>>, times |-> <<>>, said |-> <<text>>]

Success(tx, tm) == [failed |-> FALSE, texts |-> tx, times |-> tm, said |-> <<>>]

\* Variant of TrimTrailing: every row with both cells empty is dropped,
\* wherever it is.
RECURSIVE TrimEverywhere(_, _)
TrimEverywhere(tx, tm) ==
    IF tx = <<>> THEN <<tx, tm>>
    ELSE LET rest == TrimEverywhere(SubSeq(tx, 1, Len(tx) - 1), SubSeq(tm, 1, Len(tm) - 1))
         IN  IF tx[Len(tx)] = "" /\ tm[Len(tm)] = <<>> /\ Len(tx) > 1
             THEN rest
             ELSE <<Append(rest[1], tx[Len(tx)]), Append(rest[2], tm[Len(tm)])>>

\* The while loop of lines 37-43 without its return: rows are popped off
\* the end while the last row has both cells empty and is not the only one.
RECURSIVE TrimTrailing(_, _)
TrimTrailing(tx, tm) ==
    IF tx[Len(tx)] = "" /\ tm[Len(tm)] = <<>> /\ Len(tx) > 1
    THEN TrimTrailing(SubSeq(tx, 1, Len(tx) - 1), SubSeq(tm, 1, Len(tm) - 1))
    ELSE <<tx, tm>>

\* Variant of InLimit: the upper limit is not itself allowed.
InLimitExclusive(value) == TimeLimit > Float(value) /\ Float(value) >= 0

\* `60 >= float(value) >= 0`
InLimit(value) == TimeLimit >= Float(value) /\ Float(value) >= 0

\* Variant of Wrangle: a table that is entirely empty is returned as one
\* empty row.
WrangleAcceptingEmpty(t) ==
    LET trimmed == TrimTrailing([i \in Rows |-> t.text[i]], [i \in Rows |-> t.time[i]])
        tx == trimmed[1]
        tm == trimmed[2]
    IN  IF "" \in Range(tx) \/ <<>> \in Range(tm)
        THEN IF Len(tx) = 1 /\ tx[1] = "" /\ tm[1] = <<>>
             THEN Success(tx, tm)
             ELSE Failure(MissingDataText)
        ELSE IF \E i \in 1 .. Len(tm) : ~InLimit(tm[i])
             THEN Failure(TooLargeText)
             ELSE Success(tx, tm)

\* threading_table_data_wrangler applied to the table t.
Wrangle(t) ==
    LET trimmed == TrimTrailing([i \in Rows |-> t.text[i]], [i \in Rows |-> t.time[i]])
        tx == trimmed[1]
        tm == trimmed[2]
    IN  IF Len(tx) = 1 /\ tx[1] = "" /\ tm[1] = <<>>
        THEN Failure(EmptyTableText)
        ELSE IF "" \in Range(tx) \/ <<>> \in Range(tm)
             THEN Failure(MissingDataText)
             ELSE IF \E i \in 1 .. Len(tm) : ~InLimit(tm[i])
                  THEN Failure(TooLargeText)
                  ELSE Success(tx, tm)

NotCalled == [failed |-> FALSE, texts |-> <<>>, times |-> <<>>, said |-> <<"not called">>]

TableIdle ==
    /\ cells = EmptyTable
    /\ returned = NotCalled
    /\ callback_calls = <<>>

TableInit ==
    /\ cells \in Tables
    /\ returned = NotCalled
    /\ callback_calls = <<>>

\* ThreadingTableDataWrangler.threading_table_data_wrangler(
\*     update_status_callback, threading_table_text_widgets,
\*     threading_table_time_widgets)
threading_table_data_wrangler ==
    /\ returned = NotCalled
    /\ returned' = [Wrangle(cells) EXCEPT !.said = <<>>]
    /\ callback_calls' = Wrangle(cells).said
    /\ UNCHANGED <<guardVars, crashVars, guiVars, cells>>

(***************************************************************************)
(* ApplicationUi (code/run.py): the Go button, the threading-table worker  *)
(* thread and the settings dialog.  The GUI thread runs one handler at a   *)
(* time, but a handler that calls QApplication.processEvents() lets the    *)
(* events that are waiting be handled inside it: `stack` holds the         *)
(* handlers that wait in such a call.                                      *)
(***************************************************************************)
CheckBoxes == {"use_threading_table", "save_threading_data", "always_clear"}

\* The widgets click_go disables before it starts a worker.
SafetyWidgets ==
    {<<"go_button", 0>>, <<"use_threading_table", 0>>, <<"save_threading_data", 0>>}
        \cup {<<"threading_table_text_widgets", i>> : i \in Rows}
        \cup {<<"threading_table_time_widgets", i>> : i \in Rows}

AllEnabled == [w \in SafetyWidgets |-> TRUE]

AllDisabled == [w \in SafetyWidgets |-> FALSE]

\* The rows of the table the user types in, and the times the user leaves in
\* a cell: none, or one the wrangler accepts.
EditedRows == {1}

TypedTimes == {<<>>, <<"6", "0">>}

\* Before settings_dialog_window was called there is no dialog.
NoSettings == [open |-> FALSE, radio |-> "none", dropdown |-> "none"]

\* The places of click_go where a processEvents() is called.
ClickGoFrames == {"clear_status", "print", "wrangler_status", "announce"}

\* The calls of click_go among the handlers in progress.
ClickGoCalls(stk) == Cardinality({i \in DOMAIN stk : stk[i] \in ClickGoFrames})

\* The window after ApplicationUi() and view.show().
GuiIdle ==
    /\ checked = [c \in CheckBoxes |-> FALSE]
    /\ enabled = AllEnabled
    /\ stack = <<>>
    /\ workers = <<>>
    /\ threading_table_thread = 0
    /\ crashed = FALSE
    /\ settings = NoSettings

\* The main window takes clicks and keys: the process runs and the settings
\* dialog, which is modal (QDialog.open()), is not open.
MainWindowActive == ~crashed /\ ~settings.open

\* The user clicks a check box of the main window.
check_box_clicked(c) ==
    /\ MainWindowActive
    /\ IF c = "always_clear" THEN TRUE ELSE enabled[<<c, 0>>]
    /\ checked' = [checked EXCEPT ![c] = ~checked[c]]
    /\ UNCHANGED <<enabled, stack, workers, threading_table_thread, crashed, settings>>
    /\ UNCHANGED <<guardVars, crashVars, tableVars>>

\* The user changes what a cell of the threading table holds.
text_cell_edited(i, v) ==
    /\ MainWindowActive
    /\ enabled[<<"threading_table_text_widgets", i>>]
    /\ cells.text[i] # v
    /\ cells' = [cells EXCEPT !.text[i] = v]
    /\ UNCHANGED <<guardVars, crashVars, guiVars, returned, callback_calls>>

time_cell_edited(i, v) ==
    /\ MainWindowActive
    /\ enabled[<<"threading_table_time_widgets", i>>]
    /\ cells.time[i] # v
    /\ cells' = [cells EXCEPT !.time[i] = v]
    /\ UNCHANGED <<guardVars, crashVars, guiVars, returned, callback_calls>>

\* click_go from line 525 up to the first processEvents() it runs into, the
\* calls stk being in progress around it: without the threading table every
\* path prints to the status box (lines 527-555); with it the wrangler is
\* called, which prints when it fails, and click_go prints when it did not
\* (lines 566, 608).  update_status_callback ends in processEvents().  The
\* lists the wrangler returns are locals of click_go, for the worker.
ClickGoBody(stk) ==
    IF ~checked["use_threading_table"]
    THEN stack' = Append(stk, "print")
    ELSE stack' = Append(stk, IF Wrangle(cells).failed THEN "wrangler_status" ELSE "announce")

\* The user clicks Go: click_go runs up to its first processEvents(), the one
\* of clear_status (line 522) when "Always clear" is checked.
go_button_clicked ==
    /\ MainWindowActive
    /\ enabled[<<"go_button", 0>>]
    /\ Len(workers) + ClickGoCalls(stack) < MaxWorkers
    /\ Len(stack) < MaxDepth
    /\ IF checked["always_clear"]
       THEN stack' = Append(stack, "clear_status")
       ELSE ClickGoBody(stack)
    /\ UNCHANGED <<checked, enabled, workers, threading_table_thread, crashed, settings>>
    /\ UNCHANGED <<guardVars, crashVars, tableVars>>

\* Lines 570-597 (612-639): the new QThread is made self.threading_table_thread,
\* the widgets are disabled, their enabling is connected to its finished
\* signal, and it is started; click_go returns, to the handlers rest.
StartWorker(rest) ==
    /\ workers' = Append(workers, "running")
    /\ threading_table_thread' = Len(workers) + 1
    /\ enabled' = AllDisabled
    /\ stack' = rest
    /\ UNCHANGED crashed

\* radio_button_click from its second test (line 813), the handlers stk
\* being in progress around it and the dialog showing the radio button
\* `shown` checked: update_settings_status ends in processEvents().
RadioButtonSecondTest(stk, shown) ==
    IF shown = "Checked"
    THEN /\ checked' = [checked EXCEPT !["use_threading_table"] = TRUE]
         /\ stack' = Append(stk, "radio_checked")
    ELSE /\ stack' = stk
         /\ UNCHANGED checked

\* radio_button_click from its start (line 808).
RadioButtonClick(stk, shown) ==
    IF shown = "Unchecked"
    THEN /\ checked' = [checked EXCEPT !["use_threading_table"] = FALSE]
         /\ stack' = Append(stk, "radio_unchecked")
    ELSE RadioButtonSecondTest(stk, shown)

\* drop_down_click from its second test (line 836).
DropDownSecondTest(stk, shown) ==
    IF shown = "Checked"
    THEN /\ checked' = [checked EXCEPT !["save_threading_data"] = TRUE]
         /\ stack' = Append(stk, "drop_checked")
    ELSE /\ stack' = stk
         /\ UNCHANGED checked

\* drop_down_click from its start (line 831).
DropDownClick(stk, shown) ==
    IF shown = "Unchecked"
    THEN /\ checked' = [checked EXCEPT !["save_threading_data"] = FALSE]
         /\ stack' = Append(stk, "drop_unchecked")
    ELSE DropDownSecondTest(stk, shown)

\* The innermost processEvents() returns and the handler around it goes on:
\* to its next processEvents(), or to its end.  At line 570 (612) of click_go
\* the QThread that was self.threading_table_thread loses its last reference
\* and is deleted.  Qt aborts the process when it is running ("QThread:
\* Destroyed while thread is still running"); when it has finished, the calls
\* of its slots that are queued for the GUI thread stay queued.
processEvents_returns ==
    /\ ~crashed
    /\ stack # <<>>
    /\ LET top == stack[Len(stack)]
           rest == SubSeq(stack, 1, Len(stack) - 1)
           old == threading_table_thread
       IN  CASE top = "clear_status" ->
                   /\ ClickGoBody(rest)
                   /\ UNCHANGED <<checked, enabled, workers, threading_table_thread, crashed>>
             [] top \in {"print", "wrangler_status", "radio_checked", "drop_checked"} ->
                   /\ stack' = rest
                   /\ UNCHANGED <<checked, enabled, workers, threading_table_thread, crashed>>
             [] top = "announce" ->
                   /\ UNCHANGED checked
                   /\ IF old # 0 /\ workers[old] = "running"
                      THEN /\ crashed' = TRUE
                           /\ workers' = [w \in DOMAIN workers |-> "killed"]
                           /\ UNCHANGED <<enabled, stack, threading_table_thread>>
                      ELSE StartWorker(rest)
             [] top = "radio_unchecked" ->
                   /\ RadioButtonSecondTest(rest, settings.radio)
                   /\ UNCHANGED <<enabled, workers, threading_table_thread, crashed>>
             [] top = "drop_unchecked" ->
                   /\ DropDownSecondTest(rest, settings.dropdown)
                   /\ UNCHANGED <<enabled, workers, threading_table_thread, crashed>>
    /\ UNCHANGED settings
    /\ UNCHANGED <<guardVars, crashVars, tableVars>>

\* The run() of a worker returns: the thread ends and emits finished, whose
\* slots are queued for the GUI thread.
worker_finishes(w) ==
    /\ ~crashed
    /\ w \in DOMAIN workers
    /\ workers[w] = "running"
    /\ workers' = [workers EXCEPT ![w] = "finished"]
    /\ UNCHANGED <<checked, enabled, stack, threading_table_thread, crashed, settings>>
    /\ UNCHANGED <<guardVars, crashVars, tableVars>>

\* The GUI thread runs the slots connected to finished (lines 589-594,
\* 631-636): setEnabled(True) on each of the widgets.
finished_slots_run(w) ==
    /\ ~crashed
    /\ w \in DOMAIN workers
    /\ workers[w] = "finished"
    /\ workers' = [workers EXCEPT ![w] = "done"]
    /\ enabled' = AllEnabled
    /\ UNCHANGED <<checked, stack, threading_table_thread, crashed, settings>>
    /\ UNCHANGED <<guardVars, crashVars, tableVars>>

\* Variant of ShownSetting: the dialog opens on "Unchecked" whatever the
\* check box says.
ShownSettingDefault(isChecked) == "Unchecked"

\* Lines 778-790: the text of the radio button that is set, or of the
\* drop-down item that is made current, for a check box.
ShownSetting(isChecked) == IF ~isChecked THEN "Unchecked" ELSE "Checked"

\* The user clicks Settings: settings_dialog_window.
settings_button_clicked ==
    /\ MainWindowActive
    /\ settings' = [open |-> TRUE,
                    radio |-> ShownSetting(checked["use_threading_table"]),
                    dropdown |-> ShownSetting(checked["save_threading_data"])]
    /\ UNCHANGED <<checked, enabled, stack, workers, threading_table_thread, crashed>>
    /\ UNCHANGED <<guardVars, crashVars, tableVars>>

\* The user clicks a radio button of the dialog, which is then the one that
\* is checked, and clicked calls radio_button_click.
radio_button_clicked(b) ==
    /\ ~crashed
    /\ settings.open
    /\ Len(stack) < MaxDepth
    /\ settings' = [settings EXCEPT !.radio = b]
    /\ RadioButtonClick(stack, b)
    /\ UNCHANGED <<enabled, workers, threading_table_thread, crashed>>
    /\ UNCHANGED <<guardVars, crashVars, tableVars>>

\* The user picks an item of the drop-down, which is then the current one, and
\* activated calls drop_down_click.
drop_down_activated(v) ==
    /\ ~crashed
    /\ settings.open
    /\ Len(stack) < MaxDepth
    /\ settings' = [settings EXCEPT !.dropdown = v]
    /\ DropDownClick(stack, v)
    /\ UNCHANGED <<enabled, workers, threading_table_thread, crashed>>
    /\ UNCHANGED <<guardVars, crashVars, tableVars>>

\* The user closes the dialog, whose widgets stay what they were.
settings_closed ==
    /\ ~crashed
    /\ settings.open
    /\ settings' = [settings EXCEPT !.open = FALSE]
    /\ UNCHANGED <<checked, enabled, stack, workers, threading_table_thread, crashed>>
    /\ UNCHANGED <<guardVars, crashVars, tableVars>>

GuiNext ==
    \/ \E c \in CheckBoxes : check_box_clicked(c)
    \/ \E i \in EditedRows, v \in TextValues : text_cell_edited(i, v)
    \/ \E i \in EditedRows, v \in TypedTimes : time_cell_edited(i, v)
    \/ go_button_clicked
    \/ processEvents_returns
    \/ \E w \in 1 .. MaxWorkers : worker_finishes(w)
    \/ \E w \in 1 .. MaxWorkers : finished_slots_run(w)
    \/ settings_button_clicked
    \/ \E b \in {"Unchecked", "Checked"} : radio_button_clicked(b)
    \/ \E v \in {"Unchecked", "Checked"} : drop_down_activated(v)
    \/ settings_closed

\* The scheduling ApplicationUi can count on: a handler waiting in
\* processEvents() goes on, a worker ends, and queued slots are run.
GuiFairness ==
    /\ WF_vars(processEvents_returns)
    /\ \A w \in 1 .. MaxWorkers :
           WF_vars(worker_finishes(w)) /\ WF_vars(finished_slots_run(w))

(***************************************************************************)
(* Specifications.  Spec: threads using one guard.  CrashSpec: one thread  *)
(* calling crash_log_manager, and collaborators logging, one call after    *)
(* the other.  CrashDataSpec: one thread calling crash_data_manager.       *)
(***************************************************************************)
GuardIdle ==
    /\ my_lock = FALSE
    /\ is_open = FALSE
    /\ pc = [t \in Threads |-> "idle"]
    /\ inWindow = [t \in Threads |-> FALSE]
    /\ handle = [t \in Threads |-> "none"]
    /\ exitArgs = [t \in Threads |-> "none"]
    /\ openCalled = [t \in Threads |-> FALSE]
    /\ lastRelease = NoRelease

CrashIdle ==
    /\ dirs = {}
    /\ blocked = {}
    /\ files = NoFiles
    /\ handlers = <<>>
    /\ history = <<>>
    /\ calls = [t \in CrashCallers |-> NoCall]

Init == GuardInit /\ CrashIdle /\ TableIdle /\ GuiIdle

Next == GuardNext

Spec == Init /\ [][Next]_vars

\* The scheduling the guard can count on: a thread that can take a step of
\* __enter__ or __exit__, or that has its body to finish, goes on in the
\* end; and a thread blocked in acquire() gets the lock if the lock stays
\* free.  threading.Lock promises no more: which of several blocked threads
\* gets a released lock is not defined.
GuardFairness ==
    \A t \in Threads :
        /\ WF_vars(LockAcquire(t))
        /\ WF_vars(CheckOpen(t))
        /\ WF_vars(OpenOk(t))
        /\ WF_vars(EnterReturn(t))
        /\ WF_vars(\E how \in {"normal", "exception"} : ExitCall(t, how))
        /\ WF_vars(ExitClose(t))
        /\ WF_vars(ExitRelease(t))

GuardLiveSpec == Init /\ [][Next]_vars /\ GuardFairness

CrashSpecInit == CrashInit /\ GuardIdle /\ TableIdle /\ GuiIdle

CrashSpecNext == CrashNext

CrashSpec == CrashSpecInit /\ [][CrashSpecNext]_vars

CrashDataSpecInit == CrashDataInit /\ GuardIdle /\ TableIdle /\ GuiIdle

CrashDataSpec == CrashDataSpecInit /\ [][CrashDataNext]_vars

NameSpecInit == NameInit /\ GuardIdle /\ TableIdle /\ GuiIdle

NameSpec == NameSpecInit /\ [][NameNext]_vars

ProducerSpecInit == ProducerInit /\ GuardIdle /\ TableIdle /\ GuiIdle

ConcurrentSpecInit == ConcurrentInit /\ GuardIdle /\ TableIdle /\ GuiIdle

ConcurrentSpec == ConcurrentSpecInit /\ [][ConcurrentNext]_vars

WranglerSpecInit == TableInit /\ GuardIdle /\ CrashIdle /\ GuiIdle

WranglerSpec == WranglerSpecInit /\ [][threading_table_data_wrangler]_vars

GuiSpecInit == GuiIdle /\ TableIdle /\ GuardIdle /\ CrashIdle

GuiSpec == GuiSpecInit /\ [][GuiNext]_vars

GuiLiveSpec == GuiSpecInit /\ [][GuiNext]_vars /\ GuiFairness

ProducerSpec == ProducerSpecInit /\ [][ProducerNext]_vars

(***************************************************************************)
(* Properties of the guard.                                                *)
(***************************************************************************)

\* The threads that hold my_lock: past my_lock.acquire() in __enter__, or in
\* a window that has not yet released it.
LockHolders ==
    {t \in Threads :
        \/ pc[t] \in {"enter_check", "enter_open", "enter_return"}
        \/ inWindow[t]}

\* A thread blocked in my_lock.acquire() from inside its own window.
Reentrant(t) == inWindow[t] /\ pc[t] = "enter_acquire"

\* C1: mutual exclusion. At every instant at most one thread is between a
\* successful __enter__ and the end of its matching __exit__.
C1_MutualExclusion ==
    Cardinality({t \in Threads : inWindow[t]}) <= 1

\* One thread is in its window while two others wait in my_lock.acquire().
C1_Witness ==
    \E t \in Threads :
        /\ inWindow[t]
        /\ pc[t] = "exit_close"
        /\ Cardinality({u \in Threads : u # t /\ pc[u] = "enter_acquire"}) >= 2

\* C2: once a failure of open() has propagated out of __enter__ to thread t,
\* the lock has been released: if it is locked, some thread that took it
\* afterwards holds it and will release it.
C2_LockFreeAfterOpenFailure ==
    \A t \in Threads :
        (handle[t] = "SerialException" /\ pc[t] \in {"idle", "enter_acquire"})
            => (my_lock => LockHolders # {})

\* C3: the step that ends a Release leaves the device closed and the lock
\* free and ends the window, whether the body ended normally or raised.
C3_ReleaseLeavesClosedAndFree ==
    [][\A t \in Threads :
          (pc[t] = "exit_release" /\ pc'[t] # "exit_release")
              => (~is_open' /\ ~my_lock' /\ ~inWindow'[t] /\ pc'[t] = "idle")]_vars

\* A Release that followed an exception of the body has run to its end, on a
\* device that was open: the device is closed and the lock free.
C3_Witness ==
    /\ lastRelease.kind = "exception"
    /\ lastRelease.wasOpen
    /\ pc[lastRelease.by] = "idle"
    /\ ~inWindow[lastRelease.by]
    /\ ~is_open
    /\ ~my_lock

\* C4: whenever no __enter__ or __exit__ call is in progress, the device is
\* open with the lock held or closed with the lock free.
C4_OpenOwnedOrClosedFree ==
    (\A t \in Threads : pc[t] \in {"idle", "body"})
        => ((is_open /\ my_lock) \/ (~is_open /\ ~my_lock))

\* C5: lazy open. open() is reached only by the one thread that holds the
\* lock; the is_open test sends the thread to open() exactly when the device
\* is closed; the device goes from closed to open only by that open(); and
\* when __enter__ returns the device is open, the caller has the guard
\* itself as its handle and its window has begun.
C5_LazyOpen ==
    /\ [](\A t \in Threads :
             pc[t] \in {"enter_check", "enter_open", "enter_return"}
                 => (my_lock /\ LockHolders = {t}))
    /\ [][\A t \in Threads :
             (pc[t] = "enter_check" /\ pc'[t] # "enter_check")
                 => /\ (pc'[t] = "enter_open") <=> ~is_open
                    /\ (pc'[t] = "enter_return") <=> is_open
                    /\ openCalled'[t] <=> ~is_open]_vars
    /\ [][(~is_open /\ is_open')
             => \E t \in Threads :
                    pc[t] = "enter_open" /\ pc'[t] = "enter_return" /\ my_lock]_vars
    /\ [][\A t \in Threads :
             (pc[t] = "enter_return" /\ pc'[t] # "enter_return")
                 => /\ pc'[t] = "body"
                    /\ is_open'
                    /\ my_lock'
                    /\ handle'[t] = Self
                    /\ inWindow'[t]]_vars

\* One thread went through __enter__ without calling open() (the device was
\* open already) and has left; another called open() and is in its window.
C5_Witness ==
    \E t, u \in Threads :
        /\ t # u
        /\ handle[t] = Self /\ ~openCalled[t] /\ pc[t] = "idle"
        /\ handle[u] = Self /\ openCalled[u] /\ pc[u] = "body" /\ inWindow[u]
        /\ is_open

\* C6: Release closes first and releases second. While __exit__ has not yet
\* closed the device the lock is held and no other thread has it; when
\* __exit__ reaches my_lock.release() the device is closed, also when it was
\* closed already, and the lock is still held.
C6_CloseThenRelease ==
    /\ [](\A t \in Threads :
             /\ pc[t] = "exit_close" => (my_lock /\ LockHolders = {t})
             /\ pc[t] = "exit_release"
                    => (~is_open /\ my_lock /\ LockHolders = {t}))
    /\ [][\A t \in Threads :
             (pc[t] = "exit_close" /\ pc'[t] # "exit_close")
                 => (pc'[t] = "exit_release" /\ ~is_open' /\ my_lock')]_vars
    /\ [][\A t \in Threads :
             (pc[t] = "exit_release" /\ ~is_open) => ENABLED ExitRelease(t)]_vars

\* A Release on a device that was already closed has run to its end and the
\* lock is free.
C6_Witness ==
    /\ lastRelease.kind # "none"
    /\ ~lastRelease.wasOpen
    /\ pc[lastRelease.by] = "idle"
    /\ ~my_lock
    /\ ~is_open

\* C7: not reentrant. A thread that calls __enter__ inside its own window
\* stays in my_lock.acquire() for ever: it gets no handle and no error, the
\* lock stays locked, and no other thread waiting in acquire() gets past it.
C7_NotReentrant ==
    /\ [](\A t \in Threads : Reentrant(t) => my_lock)
    /\ [][\A t \in Threads :
             Reentrant(t)
                 => /\ pc'[t] = "enter_acquire"
                    /\ inWindow'[t]
                    /\ handle'[t] = handle[t]
                    /\ my_lock'
                    /\ \A u \in Threads :
                           pc[u] = "enter_acquire" => pc'[u] = "enter_acquire"]_vars

\* A thread is blocked in a nested __enter__ and another thread waits too.
C7_Witness ==
    \E t, u \in Threads :
        /\ t # u
        /\ Reentrant(t)
        /\ pc[u] = "enter_acquire"
        /\ ~inWindow[u]

\* C8: no timeout and no cancellation. A thread waiting in my_lock.acquire()
\* leaves it by no step across which the lock stays locked: it neither
\* returns nor fails, and goes on only by taking a lock that was free.
C8_BlockedWhileHeld ==
    [][\A u \in Threads :
          (pc[u] = "enter_acquire" /\ pc'[u] # "enter_acquire")
              => (~my_lock /\ my_lock' /\ pc'[u] = "enter_check"
                  /\ handle'[u] = handle[u])]_vars

\* A thread that was served before waits again while another is in its body.
C8_Witness ==
    \E t, u \in Threads :
        /\ t # u
        /\ pc[t] = "body" /\ inWindow[t]
        /\ pc[u] = "enter_acquire" /\ ~inWindow[u] /\ handle[u] = Self
        /\ my_lock

(***************************************************************************)
(* Properties of crash_log_manager, under CrashSpec.                       *)
(***************************************************************************)

\* The base of a file name as the specification words it: the part of the
\* name before its first ".", the whole name when it has none.
IsBaseOf(b, n) ==
    /\ Len(b) <= Len(n)
    /\ b = SubSeq(n, 1, Len(b))
    /\ \A i \in 1 .. Len(b) : b[i] # "."
    /\ Len(b) = Len(n) \/ n[Len(b) + 1] = "."

SameBase(n, m) == \E k \in 0 .. Len(n) : IsBaseOf(SubSeq(n, 1, k), n) /\ IsBaseOf(SubSeq(n, 1, k), m)

\* The calls of crash_log_manager that returned.
LogCalls ==
    {k \in 1 .. Len(history) :
        history[k].op = "crash_log_manager" /\ ~history[k].raised}

\* The calls whose records are in the file at path f.
CallsIn(f) == IF f \in DOMAIN files THEN {files[f][i].call : i \in 1 .. Len(files[f])} ELSE {}

\* C9: when crash_log_manager(n, False), called while an exception is
\* active, has just returned, its result is
\* <parent-of-cwd>\Crash Logs\<base(n)>_CRASHLOG.log, the directory exists,
\* and a file exists at that path with a record of this call that holds the
\* rendered exception.
C9_LogFileAtDerivedPath ==
    \A k \in LogCalls :
        (k = Len(history) /\ ~history[k].flag /\ history[k].exc # "none")
            => /\ \E b \in SeqsUpTo(NameChars, Len(history[k].name)) :
                      /\ IsBaseOf(b, history[k].name)
                      /\ history[k].ret =
                            <<"<parent-of-cwd>", "\\", "Crash Logs", "\\">>
                                \o b \o <<"_CRASHLOG", ".", "log">>
               /\ <<"<parent-of-cwd>", "\\", "Crash Logs">> \in dirs
               /\ history[k].ret \in DOMAIN files
               /\ \E i \in 1 .. Len(files[history[k].ret]) :
                      /\ files[history[k].ret][i].call = k
                      /\ history[k].exc \in Range(files[history[k].ret][i].text)
                      /\ "Traceback (most recent call last):"
                            \in Range(files[history[k].ret][i].text)

\* The first call of the process, for a name with an extension and with an
\* exception active, created the directory and returned.
C9_Witness ==
    /\ Len(history) = 1
    /\ 1 \in LogCalls
    /\ history[1].name = <<"a", ".">>
    /\ ~history[1].flag
    /\ history[1].exc # "none"
    /\ history[1].mkdir
    /\ Len(files[history[1].ret]) = 1

\* C10 as stated: of two calls made with different input names, each has its
\* own log file, and no record of the one is in the file of the other.
C10_DifferentNamesOwnFiles ==
    \A i, j \in LogCalls :
        history[i].name # history[j].name
            => /\ history[i].ret # history[j].ret
               /\ i \in CallsIn(history[i].ret)
               /\ i \notin CallsIn(history[j].ret)

\* C10 as amended: of two calls made with names whose parts before the
\* first "." differ, each has its own log file, which holds the record of
\* its call, and no record of the one is in the file of the other.
C10_DifferentBasesOwnFiles ==
    \A i, j \in LogCalls :
        ~SameBase(history[i].name, history[j].name)
            => /\ history[i].ret # history[j].ret
               /\ i \in CallsIn(history[i].ret)
               /\ i \notin CallsIn(history[j].ret)

\* Two calls with names of different bases have returned, and each file
\* holds one record: that of its own call.
C10_Witness ==
    /\ Len(history) = 2
    /\ LogCalls = {1, 2}
    /\ ~SameBase(history[1].name, history[2].name)
    /\ CallsIn(history[1].ret) = {1}
    /\ CallsIn(history[2].ret) = {2}

\* The records call k wrote, each with the file it is in and its place there.
RecordsOf(k) ==
    UNION {{<<f, i>> : i \in {j \in 1 .. Len(files[f]) : files[f][j].call = k}} :
              f \in DOMAIN files}

\* The last call of crash_log_manager that returned (0: none has).
LastLogCall == IF LogCalls = {} THEN 0 ELSE CHOOSE k \in LogCalls : \A j \in LogCalls : j <= k

\* C11: when crash_log_manager has just returned, the file at the returned
\* path holds exactly one record, the one of this call.
C11_FreshFile ==
    \A k \in LogCalls :
        k = Len(history)
            => /\ Len(files[history[k].ret]) = 1
               /\ files[history[k].ret][1].call = k

\* C12: the flag alone chooses the text of the record.  With optional_bool
\* set it is the fixed placeholder, line for line, and holds no traceback,
\* whatever exception is active; with it unset it is what
\* traceback.format_exc() renders and holds no line of the placeholder.
C12_FlagChoosesText ==
    \A k \in LogCalls :
        \A r \in RecordsOf(k) :
            LET text == files[r[1]][r[2]].text
            IN  IF history[k].flag
                THEN /\ text = <<"ERROR", ":", "root", ":",
                                 "", "", "[This is a custom logging.error message]", "",
                                 "| Here is a sentence!", "| ", "| ",
                                 "| Here is another sentence!", "| ", "|">>
                     /\ "Traceback (most recent call last):" \notin Range(text)
                     /\ "NoneType: None" \notin Range(text)
                     /\ history[k].exc \notin Range(text)
                ELSE /\ text = <<"ERROR", ":", "root", ":">> \o
                                 (IF history[k].exc = "none"
                                  THEN <<"NoneType: None">>
                                  ELSE <<"Traceback (most recent call last):", history[k].exc>>)
                     /\ "[This is a custom logging.error message]" \notin Range(text)

\* A call with the flag set, made while an exception is active, has written
\* the placeholder; the call before it, with the flag unset, a traceback.
C12_Witness ==
    /\ LogCalls = {1, 2}
    /\ ~history[1].flag /\ history[1].exc # "none"
    /\ history[2].flag /\ history[2].exc # "none"
    /\ RecordsOf(1) # {} /\ RecordsOf(2) # {}
    /\ \A r \in RecordsOf(2) :
           "[This is a custom logging.error message]" \in Range(files[r[1]][r[2]].text)

\* C13: every call of crash_log_manager that returned has written exactly
\* one record, of level ERROR, and it is in the file at the returned path;
\* a call raises only where os.mkdir does, so never for want of an active
\* exception.
C13_OneRecordPerCall ==
    \A k \in 1 .. Len(history) :
        history[k].op = "crash_log_manager"
            => IF history[k].raised
               THEN /\ history[k].mkdir
                    /\ <<"<parent-of-cwd>", "\\", "Crash Logs">> \in blocked
                    /\ RecordsOf(k) = {}
               ELSE /\ Cardinality(RecordsOf(k)) = 1
                    /\ \A r \in RecordsOf(k) :
                           /\ r[1] = history[k].ret
                           /\ files[r[1]][r[2]].text[1] = "ERROR"

\* A call made with no exception active and the flag unset has returned and
\* its one record is in its file.
C13_Witness ==
    \E k \in LogCalls :
        /\ history[k].exc = "none"
        /\ ~history[k].flag
        /\ Cardinality(RecordsOf(k)) = 1
        /\ \A r \in RecordsOf(k) :
               r[1] = history[k].ret /\ "NoneType: None" \in Range(files[r[1]][r[2]].text)

ThisCall == history'[Len(history')]

\* This step is a call of crash_data_manager whose directory-ensure step
\* (isdir, mkdir) has completed, so that shutil.move is reached.
DataCallMoves ==
    /\ Len(history') = Len(history) + 1
    /\ ThisCall.op = "crash_data_manager"
    /\ ThisCall.moves = 1

\* The result of the call is <parent-of-cwd>\Crash Data\<base(n)>_CRASHDUMP.txt.
ReturnsDataPath ==
    /\ ~ThisCall.raised
    /\ \E b \in SeqsUpTo(NameChars, Len(ThisCall.name)) :
           /\ IsBaseOf(b, ThisCall.name)
           /\ ThisCall.ret =
                 <<"<parent-of-cwd>", "\\", "Crash Data", "\\">>
                     \o b \o <<"_CRASHDUMP", ".", "txt">>

\* C15 as stated: a call of crash_data_manager(n, p) with a file at p returns
\* the derived path, and then no file is at p while the file at the returned
\* path has the content the file at p had.
C15_MovedForEveryPath ==
    [][(DataCallMoves /\ ThisCall.src \in DOMAIN files)
          => /\ ReturnsDataPath
             /\ ThisCall.src \notin DOMAIN files'
             /\ ThisCall.ret \in DOMAIN files'
             /\ files'[ThisCall.ret] = files[ThisCall.src]]_vars

\* C15 as amended: a call of crash_data_manager(n, p) with a file at p returns
\* the derived path, and then the file at the returned path has the content
\* the file at p had; no file is at p unless p is the returned path itself,
\* and every other file is as it was.
C15_MovedUnlessSamePath ==
    [][(DataCallMoves /\ ThisCall.src \in DOMAIN files)
          => /\ ReturnsDataPath
             /\ ThisCall.ret \in DOMAIN files'
             /\ files'[ThisCall.ret] = files[ThisCall.src]
             /\ (ThisCall.src \in DOMAIN files') = (ThisCall.src = ThisCall.ret)
             /\ \A q \in (DOMAIN files \cup DOMAIN files') \ {ThisCall.src, ThisCall.ret} :
                    q \in DOMAIN files /\ q \in DOMAIN files' /\ files'[q] = files[q]]_vars

\* The output file was moved out of the working directory by the first call,
\* which created the directory, and moved on by the second, to the path of
\* another name: it is at that path only, with its content.
C15_Witness ==
    /\ Len(history) = 2
    /\ \A k \in {1, 2} : history[k].op = "crash_data_manager" /\ ~history[k].raised
    /\ history[1].mkdir
    /\ history[1].src = TheOutputFile
    /\ history[2].src = history[1].ret
    /\ history[2].ret # history[1].ret
    /\ TheOutputFile \notin DOMAIN files
    /\ history[1].ret \notin DOMAIN files
    /\ files[history[2].ret] = OutputData(TheOutputFile)

\* C16: a call of crash_data_manager with no file at its source path raises
\* after one call of shutil.move and returns no path; no file is created,
\* moved or removed, and the only directory that can be new is Crash Data.
C16_MissingSourceRaises ==
    [][(DataCallMoves /\ ThisCall.src \notin DOMAIN files)
          => /\ ThisCall.raised
             /\ ThisCall.ret = <<>>
             /\ ThisCall.moves = 1
             /\ files' = files
             /\ dirs \subseteq dirs'
             /\ dirs' \ dirs \subseteq {<<"<parent-of-cwd>", "\\", "Crash Data">>}
             /\ (dirs' # dirs) = ThisCall.mkdir]_vars

\* The output file has been moved away, and a second call for the path it
\* was at has raised, leaving the moved file where it is.
C16_Witness ==
    /\ Len(history) = 2
    /\ history[1].op = "crash_data_manager" /\ ~history[1].raised
    /\ history[1].src = TheOutputFile
    /\ history[2].op = "crash_data_manager"
    /\ history[2].src = TheOutputFile
    /\ history[2].raised /\ history[2].moves = 1
    /\ TheOutputFile \notin DOMAIN files
    /\ files[history[1].ret] = OutputData(TheOutputFile)

(***************************************************************************)
(* Properties of the two operations together.                              *)
(***************************************************************************)

\* This step is a call of operation op.
CallOf(op) ==
    /\ Len(history') = Len(history) + 1
    /\ ThisCall.op = op

\* The folder operation op keeps its files in.
FolderOf(op) ==
    IF op = "crash_log_manager"
    THEN <<"<parent-of-cwd>", "\\", "Crash Logs">>
    ELSE <<"<parent-of-cwd>", "\\", "Crash Data">>

\* The files of fs that are in folder d.
FilesIn(fs, d) ==
    {f \in DOMAIN fs : Len(f) > Len(d) /\ SubSeq(f, 1, Len(d)) = d}

\* The path operation op derives from name n.
DerivedPath(op, n) ==
    LET b == CHOOSE b \in SeqsUpTo(NameChars, Len(n)) : IsBaseOf(b, n)
    IN  FolderOf(op) \o <<"\\">> \o b
            \o (IF op = "crash_log_manager"
                THEN <<"_CRASHLOG", ".", "log">>
                ELSE <<"_CRASHDUMP", ".", "txt">>)

\* C17: a call of either operation made when its folder exists does not call
\* os.mkdir, does not raise before its write or move, leaves the folder in
\* place, and leaves every file of the folder other than its own artifact
\* present with its content; this holds for the first call and for each
\* call after it.
C17_EnsureIdempotent ==
    [][\A op \in {"crash_log_manager", "crash_data_manager"} :
          (CallOf(op) /\ FolderOf(op) \in dirs)
              => /\ ~ThisCall.mkdir
                 /\ ThisCall.raised => (op = "crash_data_manager" /\ ThisCall.moves = 1)
                 /\ dirs' = dirs
                 /\ \A f \in FilesIn(files, FolderOf(op)) \ {DerivedPath(op, ThisCall.name)} :
                        f \in DOMAIN files' /\ files'[f] = files[f]]_vars

\* The same operation has been called twice with its folder, and a file of
\* an earlier run in it, there from the start; neither call made the folder,
\* and the earlier file is as it was.
C17_Witness ==
    /\ Len(history) = 2
    /\ history[1].op = history[2].op
    /\ \A k \in {1, 2} : ~history[k].mkdir
    /\ ~history[1].raised
    /\ \E f \in FilesIn(files, FolderOf(history[1].op)) :
           /\ f # history[1].ret
           /\ files[f] = UnrelatedContent

\* C20: a call of crash_log_manager raises exactly when its folder cannot be
\* made, and otherwise returns the path derived from the name, makes it the
\* one logging target and adds one record to the file there; it leaves the
\* working output file, the Crash Data folder and the files in it as they
\* are.  A call of crash_data_manager raises exactly when its folder cannot
\* be made or no file is at its source, and otherwise returns the path
\* derived from the name, where the content of the source then is; it leaves
\* the logging target, the Crash Logs folder and the files in it as they
\* are.  Neither depends on whether the other was called before.
C20_Independent ==
    [][/\ CallOf("crash_log_manager")
          => LET n == ThisCall.name
                 ret == DerivedPath("crash_log_manager", n)
                 other == FolderOf("crash_data_manager")
             IN  /\ ThisCall.raised = (FolderOf("crash_log_manager") \in blocked)
                 /\ ~ThisCall.raised
                       => /\ ThisCall.ret = ret
                          /\ handlers' = <<ret>>
                          /\ Len(files'[ret]) =
                                (IF ret \in DOMAIN files THEN Len(files[ret]) ELSE 0) + 1
                 /\ (other \in dirs') = (other \in dirs)
                 /\ FilesIn(files', other) = FilesIn(files, other)
                 /\ \A f \in FilesIn(files, other) : files'[f] = files[f]
                 /\ (WorkPath(n) \in DOMAIN files') = (WorkPath(n) \in DOMAIN files)
                 /\ WorkPath(n) \in DOMAIN files => files'[WorkPath(n)] = files[WorkPath(n)]
       /\ CallOf("crash_data_manager")
          => LET n == ThisCall.name
                 ret == DerivedPath("crash_data_manager", n)
                 other == FolderOf("crash_log_manager")
             IN  /\ ThisCall.raised =
                        (FolderOf("crash_data_manager") \in blocked
                            \/ ThisCall.src \notin DOMAIN files)
                 /\ ~ThisCall.raised
                       => /\ ThisCall.ret = ret
                          /\ files'[ret] = files[ThisCall.src]
                 /\ handlers' = handlers
                 /\ (other \in dirs') = (other \in dirs)
                 /\ FilesIn(files', other) = FilesIn(files, other)
                 /\ \A f \in FilesIn(files, other) : files'[f] = files[f]]_vars

\* Both operations have been called for one output file, crash_data_manager
\* first, each making its folder: the output file is in Crash Data and the
\* record in Crash Logs.
C20_Witness ==
    /\ Len(history) = 2
    /\ history[1].op = "crash_data_manager"
    /\ history[2].op = "crash_log_manager"
    /\ \A k \in {1, 2} : ~history[k].raised /\ history[k].mkdir
    /\ files[history[1].ret] = OutputData(WorkPath(OutputName))
    /\ CallsIn(history[2].ret) = {2}
    /\ handlers = <<history[2].ret>>

(***************************************************************************)
(* Name derivation.                                                        *)
(***************************************************************************)

\* The file-name part of a path a call returned.
ArtifactName(path) == SubSeq(path, 5, Len(path))

\* C19: every call returns, whatever its name; the name of the file at the
\* returned path is the base followed by "_CRASHLOG.log" for
\* crash_log_manager and by "_CRASHDUMP.txt" for crash_data_manager, where
\* the base is the whole input name when it has no ".", and otherwise what
\* precedes its first ".", however many follow.
C19_NameDerivation ==
    \A k \in 1 .. Len(history) :
        LET n == history[k].name
            periods == {i \in 1 .. Len(n) : n[i] = "."}
            base == IF periods = {} THEN n
                    ELSE SubSeq(n, 1, (CHOOSE i \in periods : \A j \in periods : i <= j) - 1)
        IN  /\ ~history[k].raised
            /\ history[k].op = "crash_log_manager"
                  => ArtifactName(history[k].ret) = base \o <<"_CRASHLOG", ".", "log">>
            /\ history[k].op = "crash_data_manager"
                  => ArtifactName(history[k].ret) = base \o <<"_CRASHDUMP", ".", "txt">>

\* A call made with the name "a.a." has returned, and the output file is at
\* the returned path, named "a_CRASHDUMP.txt".
C19_Witness ==
    /\ Len(history) = 1
    /\ history[1].name = <<"a", ".", "a", ".">>
    /\ history[1].op = "crash_data_manager"
    /\ ArtifactName(history[1].ret) = <<"a", "_CRASHDUMP", ".", "txt">>
    /\ history[1].ret \in DOMAIN files

(***************************************************************************)
(* Directory creation with callers running at the same time.               *)
(***************************************************************************)

\* C18: when os.mkdir is called for a folder that cannot be made, the call
\* raises and changes nothing: no logging target is set, no record written,
\* no file moved; when os.mkdir is called while the folder exists, the call
\* does not raise for that and goes on.
C18_OnlyUncreatableFails ==
    [][\A t \in CrashCallers :
          (calls[t].at = "mkdir" /\ calls'[t] # calls[t])
              => LET folder == FolderOf(calls[t].op)
                     raises == /\ Len(history') = Len(history) + 1
                               /\ ThisCall.raised
                               /\ calls'[t].at = "idle"
                 IN  /\ folder \in blocked
                        => /\ raises
                           /\ handlers' = handlers
                           /\ files' = files
                           /\ dirs' = dirs
                     /\ folder \in dirs => ~raises]_vars

\* C21: the record of every call of crash_log_manager that has returned is
\* in the file at the path the call returned, and in no other file.
C21_RecordInOwnFile ==
    \A k \in LogCalls :
        /\ RecordsOf(k) # {}
        /\ \A r \in RecordsOf(k) : r[1] = history[k].ret

\* C22: of the calls two threads have made, every one whose folder can be
\* made has got past the folder: none has raised at os.mkdir; and once both
\* threads are out of their calls, each such call has returned its path, a
\* file is at that path and the folder exists, as after the same calls made
\* one after the other.
C22_NoRaiseAtCreation ==
    \A k \in 1 .. Len(history) :
        FolderOf(history[k].op) \notin blocked
            => /\ ~(history[k].raised /\ history[k].moves = 0)
               /\ (\A t \in CrashCallers : calls[t].at = "idle")
                     => /\ FolderOf(history[k].op) \in dirs
                        /\ ~history[k].raised => history[k].ret \in DOMAIN files

(***************************************************************************)
(* Properties of threading_table_data_wrangler.                            *)
(***************************************************************************)

\* The last row of table t with a cell that is not empty (0: there is none).
LastFilled(t) ==
    LET filled == {i \in Rows : t.text[i] # "" \/ t.time[i] # <<>>}
    IN  IF filled = {} THEN 0 ELSE CHOOSE i \in filled : \A j \in filled : j <= i

\* Rows 1 .. k of table t have no empty cell.
AllFilled(t, k) == \A i \in 1 .. k : t.text[i] # "" /\ t.time[i] # <<>>

\* C23: a call of threading_table_data_wrangler returns (True, True) exactly
\* when the table is entirely empty, or a cell is empty in the rows up to
\* the last one with anything in it, or a time in those rows is not between
\* 0 and 60; it has then called update_status_callback once.  Otherwise it
\* returns the two lists and has not called update_status_callback.
C23_TwoShapes ==
    returned # NotCalled
        => LET k == LastFilled(cells)
               rejected ==
                   \/ k = 0
                   \/ ~AllFilled(cells, k)
                   \/ \E i \in 1 .. k : ~(0 <= Float(cells.time[i]) /\ Float(cells.time[i]) <= 60)
           IN  /\ returned.failed = rejected
               /\ returned.failed
                     => Len(callback_calls) = 1 /\ returned.texts = <<>> /\ returned.times = <<>>
               /\ ~returned.failed
                     => callback_calls = <<>> /\ returned.texts # <<>> /\ returned.times # <<>>

\* The table with every cell empty was rejected with one status text.
C23_Witness ==
    /\ returned # NotCalled
    /\ returned.failed
    /\ cells = EmptyTable
    /\ callback_calls = <<"Empty Threading Table!">>

\* C24: the lists of a successful call have the same length k, from 1 to 5,
\* hold no empty string and are rows 1 .. k of the table in order, k being
\* the last row with a cell that is not empty; and a table with a row of two
\* empty cells before a row that is not empty is rejected as missing data.
C24_TrailingRowsTrimmed ==
    returned # NotCalled
        => /\ ~returned.failed
              => LET k == Len(returned.texts)
                 IN  /\ Len(returned.times) = k
                     /\ 1 <= k /\ k <= 5
                     /\ k = LastFilled(cells)
                     /\ \A i \in 1 .. k :
                            /\ returned.texts[i] # "" /\ returned.times[i] # <<>>
                            /\ returned.texts[i] = cells.text[i]
                            /\ returned.times[i] = cells.time[i]
           /\ (\E i \in Rows, j \in Rows :
                   /\ i < j
                   /\ cells.text[i] = "" /\ cells.time[i] = <<>>
                   /\ cells.text[j] # "" \/ cells.time[j] # <<>>)
                 => returned.failed /\ callback_calls = <<"Missing Threading Table data!">>

\* A table of three filled rows and two empty ones was returned as lists of
\* three.
C24_Witness ==
    /\ returned # NotCalled
    /\ ~returned.failed
    /\ Len(returned.texts) = 3
    /\ LastFilled(cells) = 3
    /\ cells.text[4] = "" /\ cells.time[5] = <<>>

\* C25: a table whose rows up to the last one with anything in it are all
\* filled is returned exactly when each of its times is from 0 to 60, both
\* included, and rejected otherwise; no returned time is above 60.
C25_TimeLimitInclusive ==
    returned # NotCalled
        => LET k == LastFilled(cells)
           IN  /\ (k >= 1 /\ AllFilled(cells, k))
                  => (~returned.failed) =
                        (\A i \in 1 .. k :
                            0 <= Float(cells.time[i]) /\ Float(cells.time[i]) <= 60)
               /\ \A i \in 1 .. Len(returned.times) : Float(returned.times[i]) <= 60

\* A table with the times 60 and 0 was returned.
C25_Witness ==
    /\ returned # NotCalled
    /\ ~returned.failed
    /\ returned.times = << <<"6", "0">>, <<"0">> >>

(***************************************************************************)
(* The Go button, the worker thread and the settings dialog.               *)
(***************************************************************************)

\* The worker threads that run.
Running == {w \in DOMAIN workers : workers[w] = "running"}

\* The step is click_go going on from line 567 (609): it makes or replaces
\* the QThread.
StartsWorker == Len(workers') > Len(workers) \/ (crashed' /\ ~crashed)

\* The step is click_go getting a failure from the wrapper of the table, or
\* returning after it (lines 561-564, 603-606).
WranglerFailed ==
    \/ stack' # stack /\ stack' # <<>> /\ stack'[Len(stack')] = "wrangler_status"
                      /\ Len(stack') > Len(stack)
    \/ stack # <<>> /\ stack[Len(stack)] = "wrangler_status" /\ Len(stack') < Len(stack)

\* C26: at most one worker thread runs at a time: click_go goes on to start a
\* worker only when no worker of an earlier click_go still runs, and when the
\* wrangler reports failure click_go starts no worker and disables no widget.
C26_OneWorkerAtATime ==
    [][/\ Cardinality(Running) <= 1
       /\ StartsWorker => Running = {}
       /\ WranglerFailed => workers' = workers /\ enabled' = enabled]_vars

\* C27: the widgets click_go disables stay disabled while a worker runs, and
\* once a worker has finished they are all enabled again.
C27_DisabledWhileRunning ==
    /\ [](Running # {} => enabled = AllDisabled)
    /\ \A w \in 1 .. MaxWorkers :
           (w \in DOMAIN workers /\ workers[w] = "finished") ~> (enabled = AllEnabled)

\* C28: whenever the settings dialog is open, its radio selection is the
\* checked state of "Use threading table?" and its drop-down selection is
\* that of "Save to .txt file?".
C28_DialogAgrees ==
    settings.open =>
        /\ settings.radio \in {"Unchecked", "Checked"}
        /\ settings.dropdown \in {"Unchecked", "Checked"}
        /\ (settings.radio = "Checked") <=> checked["use_threading_table"]
        /\ (settings.dropdown = "Checked") <=> checked["save_threading_data"]

\* The dialog was opened with "Save to .txt file?" checked, and a click on
\* the radio button "Unchecked" has unchecked "Use threading table?";
\* radio_button_click waits in update_settings_status.
C28_Witness ==
    /\ settings.open
    /\ settings.dropdown = "Checked"
    /\ stack # <<>>
    /\ stack[Len(stack)] = "radio_unchecked"
    /\ ~checked["use_threading_table"]

\* C30: while a worker thread runs, no step changes the checked state of
\* "Use threading table?" or of "Save to .txt file?".
C30_CheckedFrozenWhileRunning ==
    [][Running # {} =>
           /\ checked'["use_threading_table"] = checked["use_threading_table"]
           /\ checked'["save_threading_data"] = checked["save_threading_data"]]_vars

(***************************************************************************)
(* Liveness of the guard.                                                  *)
(***************************************************************************)

\* Thread t is blocked in, or about to call, my_lock.acquire().
Pending(t) == pc[t] = "enter_acquire"

\* No self.open() has failed, and no thread has called __enter__ from
\* inside its own window: every thread that gets the lock releases it.
EveryHolderReleases ==
    \A t \in Threads :
        /\ handle[t] # "SerialException"
        /\ ~(Pending(t) /\ inWindow[t])

\* C29: if no open fails and every thread that gets the lock goes on to
\* release it, every thread with a pending acquire gets the lock in the end.
C29_PendingAcquireSucceeds ==
    ([]EveryHolderReleases) => \A t \in Threads : Pending(t) ~> (pc[t] = "enter_check")

====
